---- MODULE Spec2Model ----
(***************************************************************************)
(* Model of src/app.py: the Flask handlers generate_document,              *)
(* download_file and create_checkout_session, and the helper create_pdf.   *)
(*                                                                         *)
(* Python str values are TLA+ strings; dict / MultiDict request bodies are *)
(* functions whose DOMAIN is the set of keys present.  Each handler is one *)
(* action: a request is handled synchronously from entry to response.      *)
(* The external collaborators (OpenAI, Stripe, uuid4, the Flask request    *)
(* parser, the clock) are nondeterministic choices over their outcomes.    *)
(*                                                                         *)
(* Reading note on create_pdf: in the source the statement                 *)
(* `for para in paragraphs:` (line 157) starts at column 0, so the body of *)
(* the function create_pdf ends with line 156.  The loop of lines 157-164  *)
(* and the call doc.build(content) of line 166 are module-level code, not  *)
(* part of any call to create_pdf.  CreatePdf below is the function as     *)
(* Python defines it: lines 138-156.  (Run as a module, line 157 reads the *)
(* unbound name `paragraphs`; the model is of the functions the file       *)
(* defines, each called as the handler of its route.)                      *)
(***************************************************************************)
EXTENDS Naturals, Sequences, FiniteSets, TLC

VARIABLES
    files,      \* static/downloads: path -> the flowables built into the file
    call,       \* the request handled last: its input, what the handler asked
                \* of its collaborators, and its response
    lastFinal   \* the final_filename of the last success response of
                \* generate_document, as its caller holds it ("" before)

vars == <<files, call, lastFinal>>

-----------------------------------------------------------------------------
(* Bounds of the model *)

\* longest generated text, in lines, the generation backend returns
MaxLines == 2

-----------------------------------------------------------------------------
(* String helpers (Python str operations) *)

\* sub in s
Contains(s, sub) ==
    \E i \in 0..(Len(s) - Len(sub)) : SubSeq(s, i + 1, i + Len(sub)) = sub

\* s.endswith(suf)
EndsWith(s, suf) ==
    /\ Len(s) >= Len(suf)
    /\ SubSeq(s, Len(s) - Len(suf) + 1, Len(s)) = suf

\* index of the first line break of s, 0 when there is none
FirstBreak(s) ==
    IF \E i \in 1..Len(s) : SubSeq(s, i, i) = "\n"
    THEN CHOOSE i \in 1..Len(s) :
            /\ SubSeq(s, i, i) = "\n"
            /\ \A j \in 1..(i - 1) : SubSeq(s, j, j) # "\n"
    ELSE 0

RECURSIVE Split(_)
\* text.split('\n'): the sequence of lines of text ("" gives <<"">>)
Split(s) ==
    IF FirstBreak(s) = 0
    THEN <<s>>
    ELSE <<SubSeq(s, 1, FirstBreak(s) - 1)>>
            \o Split(SubSeq(s, FirstBreak(s) + 1, Len(s)))

\* the characters str.strip() removes that occur in the modelled texts
Whitespace == {" ", "\t", "\r", "\n"}

\* not para.strip(): the line holds only whitespace
IsBlank(para) == \A i \in 1..Len(para) : SubSeq(para, i, i) \in Whitespace

\* stand-in, in the modelled texts, for a lone surrogate code point, the
\* character str.encode('utf-8') refuses (UnicodeEncodeError)
Surrogate == "^"

\* para.encode('utf-8') raises
EncodeFails(para) == Contains(para, Surrogate)

RECURSIVE NonBlankLines(_)
\* the lines of seq, in order, for which para.strip() is truthy
NonBlankLines(seq) ==
    IF seq = <<>> THEN <<>>
    ELSE (IF IsBlank(Head(seq)) THEN <<>> ELSE <<Head(seq)>>)
            \o NonBlankLines(Tail(seq))

RECURSIVE EncodableLines(_)
\* the lines of seq, in order, whose encode/decode step succeeds
EncodableLines(seq) ==
    IF seq = <<>> THEN <<>>
    ELSE (IF EncodeFails(Head(seq)) THEN <<>> ELSE <<Head(seq)>>)
            \o EncodableLines(Tail(seq))

\* bool(v) of a str
Truthy(v) == v # ""

\* str(b) of a bool
StrBool(b) == IF b THEN "True" ELSE "False"

-----------------------------------------------------------------------------
(* Module-level configuration *)

DOWNLOAD_FOLDER == "static/downloads"

\* os.path.join(DOWNLOAD_FOLDER, filename)
PathJoin(dir, filename) == dir \o "/" \o filename

DocumentTypeKeys == {"sales_contract", "lease_agreement", "addendum", "disclosure"}

\* DOCUMENT_TYPES.get(document_type, "Real Estate Document")
DOCUMENT_TYPES_get(document_type) ==
    CASE document_type = "sales_contract"  -> "Real Estate Sales Contract"
      [] document_type = "lease_agreement" -> "Residential Lease Agreement"
      [] document_type = "addendum"        -> "Real Estate Contract Addendum"
      [] document_type = "disclosure"      -> "Property Condition Disclosure"
      [] OTHER                             -> "Real Estate Document"

\* str.upper() on the five display titles
Upper(title) ==
    CASE title = "Real Estate Sales Contract"    -> "REAL ESTATE SALES CONTRACT"
      [] title = "Residential Lease Agreement"   -> "RESIDENTIAL LEASE AGREEMENT"
      [] title = "Real Estate Contract Addendum" -> "REAL ESTATE CONTRACT ADDENDUM"
      [] title = "Property Condition Disclosure" -> "PROPERTY CONDITION DISCLOSURE"
      [] OTHER                                   -> "REAL ESTATE DOCUMENT"

-----------------------------------------------------------------------------
(* Request bodies *)

TextFields ==
    {"document_type", "buyer_name", "seller_name", "client_name",
     "property_address", "purchase_price", "closing_date", "party_role",
     "property_state", "transaction_type", "additional_instructions"}

ClauseFields ==
    {"clause_inspection", "clause_financing", "clause_appraisal", "clause_hoa"}

AllFields == TextFields \cup ClauseFields

\* the second argument of each form_data.get(key, default)
Default(key) ==
    CASE key = "document_type"           -> "real_estate_document"
      [] key = "buyer_name"              -> "Buyer"
      [] key = "seller_name"             -> "Seller"
      [] key = "client_name"             -> "Client"
      [] key = "property_address"        -> "Unknown Address"
      [] key = "purchase_price"          -> "0"
      [] key = "closing_date"            -> "TBD"
      [] key = "party_role"              -> "N/A"
      [] key = "property_state"          -> "Florida"
      [] key = "transaction_type"        -> "Residential Purchase"
      [] key = "additional_instructions" -> ""
      [] OTHER                           -> ""

\* Get with the default also replacing a falsy value (data.get(key) or default)
GetOrDefault(data, key, default) ==
    IF key \in DOMAIN data /\ data[key] # "" THEN data[key] ELSE default

\* dict.get(key, default) / MultiDict.get(key, default): the default is
\* returned only when the key is not in the mapping
Get(data, key, default) == IF key \in DOMAIN data THEN data[key] ELSE default

\* lines 61-71: the text fields extracted from form_data
Normalize(data) == [k \in TextFields |-> Get(data, k, Default(k))]

\* lines 74-77: bool(form_data.get(key)); a missing key gives None, falsy
Clauses(data) == [k \in ClauseFields |-> Truthy(Get(data, k, ""))]

\* lines 80-82: the two file names of one generation
PreviewFilename(document_type, unique_id) ==
    "preview_" \o document_type \o "_" \o unique_id \o ".pdf"

\* FinalFilename with a token of its own instead of the shared one
FinalFilenameOwnToken(document_type, unique_id) ==
    document_type \o "_" \o "ffffffff" \o ".pdf"

FinalFilename(document_type, unique_id) ==
    document_type \o "_" \o unique_id \o ".pdf"

\* BuildPrompt with the seller line left out
BuildPromptNoSeller(r, c) ==
    "\n"
    \o "Generate a professional Florida real estate contract styled after a FAR/BAR agreement. Use legal formatting, numbered sections, and clear, formal language expected in a standard real estate transaction.\n"
    \o "\n"
    \o "Include the following fields:\n"
    \o "\n"
    \o "- Document Type: " \o r["document_type"] \o "\n"
    \o "- Buyer Name: " \o r["buyer_name"] \o "\n"
    \o "- Property Address: " \o r["property_address"] \o "\n"
    \o "- Purchase Price: $" \o r["purchase_price"] \o "\n"
    \o "- Closing Date: " \o r["closing_date"] \o "\n"
    \o "- Party Role: " \o r["party_role"] \o "\n"
    \o "- State: " \o r["property_state"] \o "\n"
    \o "- Transaction Type: " \o r["transaction_type"] \o "\n"
    \o "- Optional Clauses:\n"
    \o "    * Inspection Contingency: " \o StrBool(c["clause_inspection"]) \o "\n"
    \o "    * Financing Contingency: " \o StrBool(c["clause_financing"]) \o "\n"
    \o "    * Appraisal Contingency: " \o StrBool(c["clause_appraisal"]) \o "\n"
    \o "    * HOA Disclosure: " \o StrBool(c["clause_hoa"]) \o "\n"
    \o "- Additional Instructions: " \o r["additional_instructions"] \o "\n"
    \o "\n"
    \o "Include all required legal disclosures and a signature section for both buyer and seller. Start with a title header, and mark the preview as 'WATERMARKED' if requested.\n"

\* lines 85-107: the f-string prompt (the bullet U+2022 of lines 100-103 is
\* written "*" here)
BuildPrompt(r, c) ==
    "\n"
    \o "Generate a professional Florida real estate contract styled after a FAR/BAR agreement. Use legal formatting, numbered sections, and clear, formal language expected in a standard real estate transaction.\n"
    \o "\n"
    \o "Include the following fields:\n"
    \o "\n"
    \o "- Document Type: " \o r["document_type"] \o "\n"
    \o "- Buyer Name: " \o r["buyer_name"] \o "\n"
    \o "- Seller Name: " \o r["seller_name"] \o "\n"
    \o "- Property Address: " \o r["property_address"] \o "\n"
    \o "- Purchase Price: $" \o r["purchase_price"] \o "\n"
    \o "- Closing Date: " \o r["closing_date"] \o "\n"
    \o "- Party Role: " \o r["party_role"] \o "\n"
    \o "- State: " \o r["property_state"] \o "\n"
    \o "- Transaction Type: " \o r["transaction_type"] \o "\n"
    \o "- Optional Clauses:\n"
    \o "    * Inspection Contingency: " \o StrBool(c["clause_inspection"]) \o "\n"
    \o "    * Financing Contingency: " \o StrBool(c["clause_financing"]) \o "\n"
    \o "    * Appraisal Contingency: " \o StrBool(c["clause_appraisal"]) \o "\n"
    \o "    * HOA Disclosure: " \o StrBool(c["clause_hoa"]) \o "\n"
    \o "- Additional Instructions: " \o r["additional_instructions"] \o "\n"
    \o "\n"
    \o "Include all required legal disclosures and a signature section for both buyer and seller. Start with a title header, and mark the preview as 'WATERMARKED' if requested.\n"

-----------------------------------------------------------------------------
(* create_pdf *)

\* one flowable of the content list
Para(text, style) == [kind |-> "Paragraph", text |-> text, style |-> style]
Spacer(height) == [kind |-> "Spacer", text |-> "", style |-> height]

WatermarkMarkup == "<font color='red'>WATERMARKED PREVIEW</font>"

\* reportlab's Paragraph constructor parses its text as markup and raises
\* ValueError on an unbalanced tag; of the modelled inputs only an opened
\* and never closed <b> is unbalanced
MarkupFails(text) == Contains(text, "<b>") /\ ~Contains(text, "</b>")

\* lines 146-150: title, "Prepared for", date
HeaderBlock(client_name, document_type, date) ==
    << Para(Upper(document_type), "Title"), Spacer("20"),
       Para("Prepared for: " \o client_name, "Title"), Spacer("20"),
       Para("Date: " \o date, "Normal"), Spacer("20") >>

\* lines 152-154
WatermarkBlock(watermark) ==
    IF watermark THEN << Para(WatermarkMarkup, "Title"), Spacer("20") >> ELSE << >>

\* lines 138-156, the whole function body.  text is the message content of
\* the completion: [isNone, value].  The result names what the call did:
\* whether it raised, the content list it held when it returned, and the
\* files it wrote.  SimpleDocTemplate(filepath) opens nothing; only
\* doc.build writes the file, and the function never calls it.
CreatePdf(text, filepath, client_name, document_type, watermark, date) ==
    IF MarkupFails("Prepared for: " \o client_name)
    THEN [raised |-> TRUE, error |-> "ValueError", content |-> << >>, writes |-> << >>]
    ELSE IF text.isNone
    THEN [raised |-> TRUE, error |-> "AttributeError",
          content |-> HeaderBlock(client_name, document_type, date)
                        \o WatermarkBlock(watermark),
          writes |-> << >>]
    ELSE [raised |-> FALSE, error |-> "",
          content |-> HeaderBlock(client_name, document_type, date)
                        \o WatermarkBlock(watermark),
          writes |-> << >>]

RECURSIVE ApplyWrites(_, _)
\* the artifact directory after the writes ws (each <<path, content>>)
ApplyWrites(fs, ws) ==
    IF ws = << >> THEN fs
    ELSE ApplyWrites(
            [q \in DOMAIN fs \cup {Head(ws)[1]} |->
                IF q = Head(ws)[1] THEN Head(ws)[2] ELSE fs[q]],
            Tail(ws))

-----------------------------------------------------------------------------
(* Inputs and outcomes of the collaborators *)

NoData == [k \in {} |-> ""]

\* a fully filled request
BaseBody ==
    [k \in AllFields |->
        CASE k = "document_type"           -> "lease_agreement"
          [] k = "buyer_name"              -> "Alice"
          [] k = "seller_name"             -> "Bob"
          [] k = "client_name"             -> "Carol"
          [] k = "property_address"        -> "123 Main St"
          [] k = "purchase_price"          -> "250000"
          [] k = "closing_date"            -> "2025-06-30"
          [] k = "party_role"              -> "Listing Agent"
          [] k = "property_state"          -> "Georgia"
          [] k = "transaction_type"        -> "Commercial Lease"
          [] k = "additional_instructions" -> "Add a pet addendum."
          [] OTHER                         -> "on"]

Without(data, key) == [k \in DOMAIN data \ {key} |-> data[k]]
With(data, key, v) == [k \in DOMAIN data \cup {key} |-> IF k = key THEN v ELSE data[k]]

\* request bodies: the full request, the empty one, and the full request
\* with one field missing, blank, or replaced
Bodies ==
    {BaseBody, NoData}
    \cup {Without(BaseBody, k) : k \in AllFields}
    \cup {With(BaseBody, k, "") : k \in AllFields}
    \cup {With(BaseBody, "document_type", d) : d \in {"sales_contract", "quitclaim_deed"}}
    \cup {With(BaseBody, "client_name", "<b>Carol")}

\* uuid.uuid4().hex[:8]
Tokens == {"ab12cd34", "0f9e8d7c"}

\* lines of generated text: prose, a blank line, and a line the encode
\* step refuses
LineKinds == {"1. PARTIES", "  ", "Price " \o Surrogate}

RECURSIVE TextsOf(_)
\* the texts of exactly n lines
TextsOf(n) ==
    IF n = 1 THEN LineKinds
    ELSE {t \o "\n" \o l : t \in TextsOf(n - 1), l \in LineKinds}

Texts == UNION {TextsOf(n) : n \in 1..MaxLines}

NoneContent == [isNone |-> TRUE, value |-> ""]

\* client.chat.completions.create: raises, or returns a completion whose
\* first message content is None or a text
LlmOutcomes ==
    {[raised |-> TRUE, content |-> NoneContent],
     [raised |-> FALSE, content |-> NoneContent]}
    \cup {[raised |-> FALSE, content |-> [isNone |-> FALSE, value |-> t]] : t \in Texts}

\* datetime.now().strftime('%B %d, %Y')
Dates == {"June 01, 2025"}

PlainText == [raised |-> FALSE, content |-> [isNone |-> FALSE, value |-> "1. PARTIES\n\n2. PRICE"]]

\* the combinations explored: every body in both encodings with one
\* ordinary completion, the two unparsable JSON bodies, and, for the full
\* request, every outcome of the generation backend and every token
GenerateInputs ==
    {[req |-> [kind |-> k, data |-> d], llm |-> PlainText, unique_id |-> "ab12cd34"] :
        k \in {"json", "form"}, d \in Bodies}
    \cup {[req |-> [kind |-> k, data |-> NoData], llm |-> PlainText, unique_id |-> "ab12cd34"] :
        k \in {"json_array", "json_invalid"}}
    \cup {[req |-> [kind |-> "json", data |-> BaseBody], llm |-> l, unique_id |-> t] :
        l \in LlmOutcomes, t \in Tokens}

-----------------------------------------------------------------------------
(* The handlers *)

\* the record of one handled request: what came in, what the handler asked
\* of its collaborators, and the response it returned
NoCall ==
    [op |-> "none", kind |-> "", data |-> NoData, filename |-> "",
     fields |-> NoData, clauses |-> NoData, tokens |-> << >>,
     prompts |-> << >>, text |-> NoneContent,
     stripe |-> << >>, issued |-> "", status |-> 0, resp |-> NoData, served |-> << >>]

\* jsonify({...}) of a success of generate_document, lines 128-132
GenerateSuccess(preview_filename, final_filename) ==
    [k \in {"success", "preview_url", "final_filename"} |->
        CASE k = "success"        -> "True"
          [] k = "preview_url"    -> "/download/" \o preview_filename
          [] k = "final_filename" -> final_filename]

\* lines 134-136
GenerateFailure(e) ==
    [k \in {"error"} |-> "Failed to generate document: " \o e]

\* generate_document, lines 51-136, for one request and one outcome of each
\* collaborator; gives the record of the call and the artifact directory
\* it leaves
HandleGenerate(fs, req, llm, unique_id, date) ==
    LET base == [NoCall EXCEPT !.op = "generate_document",
                               !.kind = req.kind, !.data = req.data]
    IN
    IF req.kind = "json_invalid"
    THEN \* request.json raises BadRequest
         [call |-> [base EXCEPT !.status = 500, !.resp = GenerateFailure("BadRequest")],
          files |-> fs]
    ELSE IF req.kind = "json_array"
    THEN \* a list has no .get
         [call |-> [base EXCEPT !.status = 500,
                                !.resp = GenerateFailure("AttributeError")],
          files |-> fs]
    ELSE
    LET r == Normalize(req.data)
        c == Clauses(req.data)
        document_type == r["document_type"]
        preview_filename == PreviewFilename(document_type, unique_id)
        final_filename == FinalFilename(document_type, unique_id)
        prompt == BuildPrompt(r, c)
        asked == [base EXCEPT !.fields = r, !.clauses = c,
                              !.tokens = <<unique_id>>, !.prompts = <<prompt>>]
    IN
    IF llm.raised
    THEN [call |-> [asked EXCEPT !.status = 500,
                                 !.resp = GenerateFailure("OpenAIError")],
          files |-> fs]
    ELSE
    LET document_text == llm.content
        got == [asked EXCEPT !.text = document_text]
        title == DOCUMENT_TYPES_get(document_type)
        preview == CreatePdf(document_text, PathJoin(DOWNLOAD_FOLDER, preview_filename),
                             r["client_name"], title, TRUE, date)
        fs1 == ApplyWrites(fs, preview.writes)
        final == CreatePdf(document_text, PathJoin(DOWNLOAD_FOLDER, final_filename),
                           r["client_name"], title, FALSE, date)
        fs2 == ApplyWrites(fs1, final.writes)
    IN
    IF preview.raised
    THEN [call |-> [got EXCEPT !.status = 500, !.resp = GenerateFailure(preview.error)],
          files |-> fs1]
    ELSE IF final.raised
    THEN [call |-> [got EXCEPT !.status = 500, !.resp = GenerateFailure(final.error)],
          files |-> fs2]
    ELSE [call |-> [got EXCEPT !.status = 200,
                               !.resp = GenerateSuccess(preview_filename, final_filename)],
          files |-> fs2]

\* send_from_directory(DOWNLOAD_FOLDER, filename, as_attachment=True),
\* line 171: the file when it is there, the transport's 404 otherwise
HandleDownload(fs, filename) ==
    LET path == PathJoin(DOWNLOAD_FOLDER, filename)
        base == [NoCall EXCEPT !.op = "download_file", !.filename = filename]
    IN
    IF path \in DOMAIN fs
    THEN [base EXCEPT !.status = 200, !.served = fs[path]]
    ELSE [base EXCEPT !.status = 404]

\* 'unit_amount': 9900
UnitAmount == 9900

\* SessionRequest with a success redirect that drops the file name
SessionRequestNoFilename(final_filename) ==
    [payment_method_types |-> <<"card">>,
     line_items |-> << [currency |-> "usd", name |-> "Real Estate Document",
                        unit_amount |-> UnitAmount, quantity |-> 1] >>,
     mode |-> "payment",
     success_url |-> "http://127.0.0.1:5001/download/",
     cancel_url |-> "http://127.0.0.1:5001/cancel"]

\* the keyword arguments of stripe.checkout.Session.create, lines 190-205
SessionRequest(final_filename) ==
    [payment_method_types |-> <<"card">>,
     line_items |-> << [currency |-> "usd", name |-> "Real Estate Document",
                        unit_amount |-> UnitAmount, quantity |-> 1] >>,
     mode |-> "payment",
     success_url |-> "http://127.0.0.1:5001/download/" \o final_filename,
     cancel_url |-> "http://127.0.0.1:5001/cancel"]

CheckoutError(e) == [k \in {"error"} |-> e]

\* create_checkout_session, lines 174-208.  fallback is what
\* request.get_json() does for a body that is not JSON: older Flask returns
\* None, newer Flask raises 415 UnsupportedMediaType.  session is the
\* outcome of the payment backend: [raised, id].
HandleCheckout(req, fallback, session) ==
    LET base == [NoCall EXCEPT !.op = "create_checkout_session",
                               !.kind = req.kind, !.data = req.data]
        \* request.form is falsy when it holds no field
        parsed ==
            CASE req.kind = "json" -> [ok |-> TRUE, error |-> ""]
              [] req.kind = "json_invalid" -> [ok |-> FALSE, error |-> "BadRequest"]
              [] req.kind = "json_array" -> [ok |-> FALSE, error |-> "AttributeError"]
              [] req.kind = "form" /\ DOMAIN req.data # {} -> [ok |-> TRUE, error |-> ""]
              [] OTHER ->
                    IF fallback = "raises"
                    THEN [ok |-> FALSE, error |-> "UnsupportedMediaType"]
                    ELSE [ok |-> FALSE, error |-> "AttributeError"]
    IN
    IF ~parsed.ok
    THEN [base EXCEPT !.status = 500, !.resp = CheckoutError(parsed.error)]
    ELSE
    LET final_filename == Get(req.data, "final_filename", "")
    IN
    IF ~Truthy(final_filename)
    THEN [base EXCEPT !.status = 400,
                      !.resp = CheckoutError("Missing document filename")]
    ELSE IF session.raised
    THEN [base EXCEPT !.stripe = <<SessionRequest(final_filename)>>,
                      !.status = 500, !.resp = CheckoutError("StripeError")]
    ELSE [base EXCEPT !.stripe = <<SessionRequest(final_filename)>>,
                      !.issued = session.id, !.status = 200,
                      !.resp = [k \in {"sessionId"} |-> session.id]]

-----------------------------------------------------------------------------
(* The state machine *)

\* a file an earlier deployment left in static/downloads
OldName == "sales_contract_ab12cd34.pdf"
OldContent == << Para("OLD CONTRACT", "Normal") >>

\* os.makedirs(DOWNLOAD_FOLDER, exist_ok=True): the directory may be new or
\* may already hold artifacts
InitialDirectories ==
    { [q \in {} |-> << >>],
      [q \in {PathJoin(DOWNLOAD_FOLDER, OldName)} |-> OldContent] }

Init ==
    /\ files \in InitialDirectories
    /\ call = NoCall
    /\ lastFinal = ""

\* POST /generate-document
GenerateDocument ==
    \E in \in GenerateInputs, date \in Dates :
        \E out \in {HandleGenerate(files, in.req, in.llm, in.unique_id, date)} :
            /\ call' = out.call
            /\ files' = out.files
            \* the caller keeps the final file name of the last success
            /\ lastFinal' = IF out.call.status = 200
                            THEN out.call.resp["final_filename"]
                            ELSE lastFinal

\* the file names a caller asks for: the one it was given, the old file,
\* and one that was never there
DownloadNames == ({lastFinal} \ {""}) \cup {OldName, "missing.pdf"}

\* GET /download/<filename>
DownloadFile ==
    \E filename \in DownloadNames :
        /\ call' = HandleDownload(files, filename)
        /\ UNCHANGED <<files, lastFinal>>

CheckoutBodies ==
    {NoData, [k \in {"final_filename"} |-> ""], [k \in {"document"} |-> "x"]}
    \cup {[k \in {"final_filename"} |-> f] : f \in ({lastFinal} \ {""}) \cup {OldName}}

CheckoutRequests ==
    [kind : {"json", "form"}, data : CheckoutBodies]
    \cup [kind : {"json_array", "json_invalid", "other"}, data : {NoData}]

SessionOutcomes ==
    {[raised |-> TRUE, id |-> ""]}
    \cup {[raised |-> FALSE, id |-> i] : i \in {"cs_test_a1", "cs_test_b2"}}

\* POST /create-checkout-session
CreateCheckoutSession ==
    \E req \in CheckoutRequests, fallback \in {"returns_none", "raises"},
       session \in SessionOutcomes :
        /\ call' = HandleCheckout(req, fallback, session)
        /\ UNCHANGED <<files, lastFinal>>

Next == GenerateDocument \/ DownloadFile \/ CreateCheckoutSession

Spec == Init /\ [][Next]_vars

-----------------------------------------------------------------------------
(* Reading the outcome of a call *)

IsGenerate == call.op = "generate_document"
IsCheckout == call.op = "create_checkout_session"
IsDownload == call.op = "download_file"

\* the request fields were extracted (lines 61-77 ran)
Extracted == IsGenerate /\ DOMAIN call.fields = TextFields

GenerateSucceeded == IsGenerate /\ call.status = 200

\* final_filename is missing from the body or empty
FilenameMissing ==
    \/ "final_filename" \notin DOMAIN call.data
    \/ call.data["final_filename"] = ""

\* the two artifact paths of the last generation
PreviewPath ==
    PathJoin(DOWNLOAD_FOLDER,
             "preview_" \o call.fields["document_type"] \o "_" \o call.tokens[1] \o ".pdf")
FinalPath ==
    PathJoin(DOWNLOAD_FOLDER,
             call.fields["document_type"] \o "_" \o call.tokens[1] \o ".pdf")

\* the flowables stored under path, none when no file is there
Rendered(path) == IF path \in DOMAIN files THEN files[path] ELSE << >>

IsMarker(f) == f.kind = "Paragraph" /\ Contains(f.text, "WATERMARKED PREVIEW")

RECURSIVE NormalTexts(_)
\* the texts of the paragraphs of seq that are in the body style
NormalTexts(seq) ==
    IF seq = << >> THEN << >>
    ELSE (IF Head(seq).kind = "Paragraph" /\ Head(seq).style = "Normal"
          THEN <<Head(seq).text>> ELSE << >>)
            \o NormalTexts(Tail(seq))

\* the body paragraphs of a content list: the body-style paragraphs that
\* follow the six flowables of the header block
BodyTexts(content) == NormalTexts(SubSeq(content, 7, Len(content)))

\* the paragraphs the text should give: its non-blank lines, less the lines
\* the encode step refuses, in order
ExpectedBody(text) == EncodableLines(NonBlankLines(Split(text)))

-----------------------------------------------------------------------------
(* The claims *)

\* C1 (as stated): whatever the encoding of the body, a checkout call whose
\* final_filename is absent or empty ends with HTTP 400 and the error
\* 'Missing document filename', and the payment backend is not called.
C1_MissingFilenameIs400 ==
    (IsCheckout /\ FilenameMissing) =>
        /\ call.status = 400
        /\ call.resp = [k \in {"error"} |-> "Missing document filename"]
        /\ call.stripe = << >>

\* C2: a checkout call with a non-empty final_filename F makes exactly one
\* session request, whose success redirect ends with "/download/" followed
\* by F, whose cancel redirect is the fixed one, and whose only line item
\* has quantity 1 and unit amount 9900; when the backend issues a session,
\* the response returns its identity.
C2_SessionBoundToFilename ==
    (IsCheckout /\ ~FilenameMissing) =>
        /\ Len(call.stripe) = 1
        /\ EndsWith(call.stripe[1].success_url,
                    "/download/" \o call.data["final_filename"])
        /\ call.stripe[1].cancel_url = "http://127.0.0.1:5001/cancel"
        /\ Len(call.stripe[1].line_items) = 1
        /\ call.stripe[1].line_items[1].quantity = 1
        /\ call.stripe[1].line_items[1].unit_amount = 9900
        /\ (call.issued # "" =>
                /\ call.status = 200
                /\ call.resp = [k \in {"sessionId"} |-> call.issued])

\* a session was issued for the final file of the last generation
C2_Witness ==
    /\ IsCheckout
    /\ call.status = 200
    /\ lastFinal # ""
    /\ call.data = [k \in {"final_filename"} |-> lastFinal]
    /\ call.resp = [k \in {"sessionId"} |-> "cs_test_b2"]

\* C3 (as stated): a generate_document call ends either with a success
\* response naming both identities, both files then being in the artifact
\* directory, or with an HTTP 500 error response naming neither.
C3_SuccessMeansBothWritten ==
    IsGenerate =>
        \/ /\ call.status = 200
           /\ DOMAIN call.resp = {"success", "preview_url", "final_filename"}
           /\ PreviewPath \in DOMAIN files
           /\ FinalPath \in DOMAIN files
        \/ /\ call.status = 500
           /\ DOMAIN call.resp = {"error"}

\* C4 (as stated): after a successful generation the preview artifact holds
\* the WATERMARKED PREVIEW marker right after the header block and before
\* the body, the final artifact holds no marker, and both hold the same
\* body paragraphs.
C4_WatermarkOnlyInPreview ==
    GenerateSucceeded =>
        /\ PreviewPath \in DOMAIN files
        /\ FinalPath \in DOMAIN files
        /\ Len(files[PreviewPath]) >= 7
        /\ IsMarker(files[PreviewPath][7])
        /\ \A i \in 1..Len(files[FinalPath]) : ~IsMarker(files[FinalPath][i])
        /\ BodyTexts(files[PreviewPath]) = BodyTexts(files[FinalPath])

\* C5 (as stated): the body paragraphs of the document rendered from a text
\* are the non-blank lines of the text, less the lines whose encode step
\* fails, in their original order (so their number is the difference of the
\* two counts).
C5_ParagraphPerNonBlankLine ==
    GenerateSucceeded =>
        /\ BodyTexts(Rendered(FinalPath)) = ExpectedBody(call.text.value)
        /\ Len(BodyTexts(Rendered(FinalPath)))
              = Len(NonBlankLines(Split(call.text.value)))
                  - Cardinality({i \in 1..Len(NonBlankLines(Split(call.text.value))) :
                        EncodeFails(NonBlankLines(Split(call.text.value))[i])})

\* C6 (as stated): in the DocumentRequest every text field that is missing
\* from the body, or present with a falsy value, holds the field's default.
C6_FalsyReplacedByDefault ==
    Extracted =>
        \A k \in TextFields :
            (k \notin DOMAIN call.data \/ call.data[k] = "") =>
                call.fields[k] = Default(k)

\* C6 (amended): a text field missing from the body holds the field's
\* default; a text field present in the body holds the value given, the
\* empty string included.
C6_MissingReplacedPresentKept ==
    Extracted =>
        \A k \in TextFields :
            /\ k \notin DOMAIN call.data => call.fields[k] = Default(k)
            /\ k \in DOMAIN call.data => call.fields[k] = call.data[k]

\* a request with a blank buyer name was normalised, and the name stayed
\* blank
C6_Witness ==
    /\ Extracted
    /\ "buyer_name" \in DOMAIN call.data
    /\ call.data["buyer_name"] = ""
    /\ call.fields["buyer_name"] = ""
    /\ "seller_name" \in DOMAIN call.data

\* every clause flag, as printed, is in the prompt
ClausesInPrompt ==
    \A k \in ClauseFields : Contains(call.prompts[1], StrBool(call.clauses[k]))

\* C7 (as stated): the prompt contains the value of every request field.
C7_PromptContainsEveryField ==
    (Extracted /\ call.prompts # << >>) =>
        /\ \A k \in TextFields : Contains(call.prompts[1], call.fields[k])
        /\ ClausesInPrompt

\* C7 (amended): the prompt contains the value of every request field
\* except the client name, which goes only to the PDF header.
C7_PromptContainsFieldsButClient ==
    (Extracted /\ call.prompts # << >>) =>
        /\ \A k \in TextFields \ {"client_name"} :
                Contains(call.prompts[1], call.fields[k])
        /\ ClausesInPrompt

\* the prompt of the full request was built and sent
C7_Witness ==
    /\ Extracted
    /\ call.data = BaseBody
    /\ Len(call.prompts) = 1
    /\ call.fields["seller_name"] = "Bob"
    /\ ~Contains(call.prompts[1], "Carol")

\* the document type of the request, with its default
RequestedType ==
    IF "document_type" \in DOMAIN call.data
    THEN call.data["document_type"]
    ELSE "real_estate_document"

\* C8: a generation draws exactly one token T; a success reports
\* preview_url /download/preview_D_T.pdf and final_filename D_T.pdf for the
\* request's document type D and that T; a D outside the enumeration is not
\* rejected.
C8_OneTokenTwoNames ==
    /\ IsGenerate => Len(call.tokens) <= 1
    /\ Extracted => Len(call.tokens) = 1
    /\ GenerateSucceeded =>
        /\ call.resp["preview_url"]
              = "/download/preview_" \o RequestedType \o "_" \o call.tokens[1] \o ".pdf"
        /\ call.resp["final_filename"]
              = RequestedType \o "_" \o call.tokens[1] \o ".pdf"
    /\ (/\ Extracted
        /\ RequestedType \notin DocumentTypeKeys
        /\ ~call.text.isNone
        /\ ~MarkupFails(call.fields["client_name"])) => call.status = 200

\* a generation for a document type outside the enumeration succeeded
C8_Witness ==
    /\ GenerateSucceeded
    /\ RequestedType = "quitclaim_deed"
    /\ call.resp["final_filename"] = "quitclaim_deed_ab12cd34.pdf"

\* C10 (as stated): the final artifact of a generation is served by
\* download_file right after the generation, with or without a checkout.
C10_FinalDownloadableAfterGeneration ==
    (IsDownload /\ lastFinal # "" /\ call.filename = lastFinal) =>
        call.status = 200

====
